---- MODULE Spec2Model ----
(***************************************************************************)
(* BabbleFish: the requirement scheduler (Novel / Chapter), the            *)
(* orchestrator (NovelTranslator.process_next_task) and the bounded        *)
(* feedback loop of the translation workflow; the entity unification of    *)
(* the ingestion workflow (EntityCreator) and the merge of unified         *)
(* entities into the knowledge graph (EntityOperations).                   *)
(***************************************************************************)
EXTENDS Integers, Sequences, FiniteSets, TLC

VARIABLES
    novel,              \* NovelTranslator.novel: the Novel and its Chapters
    max_feedback_loops, \* TranslationWorkflowFactory.max_feedback_loops
    wf_pc,              \* node of the translation workflow about to run, "idle" outside an invocation
    wf_state,           \* the TranslationState of the invocation
    wf_chapter,         \* chapter_index argument of the running translate_chapter
    translator_runs,    \* history: translator executions in this invocation
    junior_runs,        \* history: junior_editor executions in this invocation
    fluency_runs,       \* history: fluency_editor executions in this invocation
    last_node,          \* history: the node that ran last in this invocation
    task,               \* result of the most recent Novel.get_task call
    last_outcome,       \* how the most recent process_next_task ended
    prev_novel,         \* history: the Novel when the most recent operation on it was entered
    setup_requests,     \* history: Setup tasks received in a row by process_next_task
    indexed_chapters,   \* argument of the most recent add_chapters call
    node_log,           \* history: the nodes the workflow with the entry dispatcher ran, in order
    setup_result,       \* argument of the most recent _update_novel_from_setup_result call
    done                \* history: (chapter index, requirement) pairs processed successfully

VARIABLES
    kg_nodes,           \* the Entity nodes of the knowledge graph
    kg_rels,            \* the relationships of the knowledge graph
    next_id,            \* the next element id the graph store hands out
    prev_nodes,         \* history: kg_nodes when the most recent operation was entered
    prev_rels,          \* history: kg_rels when the most recent operation was entered
    new_entities,       \* argument of the most recent _unify_entities call
    related_entities,   \* history: related_entities inside the most recent _unify_entities
    unified,            \* outcome of the most recent _unify_entities call
    updated,            \* argument of the most recent update_entities call
    merge_log,          \* history: the _merge_entities calls of the most recent update_entities
    triplets,           \* argument of the most recent add_triplets call
    documents,          \* the Novels whose ingestion shares the graph: extracted data, position, flag
    kg_op               \* history: the most recent knowledge graph operation

EntityVars == <<kg_nodes, kg_rels, next_id, prev_nodes, prev_rels, new_entities,
                related_entities, unified, updated, merge_log, triplets, documents, kg_op>>

vars == <<novel, max_feedback_loops, wf_pc, wf_state, wf_chapter, translator_runs,
          junior_runs, fluency_runs, last_node, task, last_outcome, prev_novel,
          setup_requests, setup_result, indexed_chapters, node_log,
          done, EntityVars>>

(***************************************************************************)
(* Bounds of the model                                                     *)
(***************************************************************************)
MaxChapterIndex == 1
MaxBatch == 2
MaxLoops == 3
MaxSetupRequests == 4

ChapterIndices == 0..MaxChapterIndex

(***************************************************************************)
(* Values                                                                  *)
(***************************************************************************)
None == "None"

\* class Requirement
SETUP == "Setup"
ANNOTATION == "Annotation"
INGESTION == "Ingestion"
TRANSLATION == "Translation"
SUMMARY == "Summary"

\* WorkflowConfig.max_feedback_loops = Field(default=3, ge=1, le=10)
DefaultMaxFeedbackLoops == 3

APPROVED_RESPONSE_MARKER == "approved response accepted"
REJECTED_RESPONSE == "needs improvement"

\* The text loaded for chapter i: every chapter has its own text.
ChapterText(i) == <<"text", i>>

\* Another text for chapter i, as a later batch may carry it
RevisedText(i) == <<"revised", i>>

\* Chapter.__init__
Chapter(original) ==
    [original |-> original, translation |-> None, summary |-> None,
     annotated_status |-> FALSE, ingested_status |-> FALSE]

\* Novel.__init__: indexed_chapters is a dict, which keeps its keys in
\* insertion order (keys) beside the mapping itself (chapters).
EmptyChapters == [i \in {} |-> Chapter(None)]

(***************************************************************************)
(* Chapter.get_requirements                                                *)
(***************************************************************************)
RequirementUnsatisfied(c, req) ==
    CASE req = SUMMARY -> c.summary = None
      [] req = INGESTION -> ~c.ingested_status
      [] req = ANNOTATION -> ~c.annotated_status
      [] req = TRANSLATION -> c.translation = None

\* The insertion order of the checks dict.
ChecksOrder == <<SUMMARY, INGESTION, ANNOTATION, TRANSLATION>>

\* Fault variant of get_requirements: the checks in the order in which
\* class Requirement declares its members
get_requirements_enum_order(c) ==
    LET Test(req) == RequirementUnsatisfied(c, req)
    IN  SelectSeq(<<ANNOTATION, INGESTION, TRANSLATION, SUMMARY>>, Test)

get_requirements(c) ==
    LET Test(req) == RequirementUnsatisfied(c, req)
    IN  SelectSeq(ChecksOrder, Test)

(***************************************************************************)
(* Novel.get_novel_requirements: Requirement.SETUP or False (Python's      *)
(* False is the string False here, so that it compares with a Requirement) *)
(***************************************************************************)
False == "False"

get_novel_requirements(nov) ==
    IF nov.style_guide = None \/ nov.genres = None \/ nov.language = None
    THEN SETUP
    ELSE False

(***************************************************************************)
(* sorted(self.indexed_chapters.keys())                                    *)
(***************************************************************************)
RECURSIVE SortedSeq(_)
SortedSeq(S) ==
    IF S = {} THEN <<>>
    ELSE LET m == CHOOSE x \in S : \A y \in S : x <= y
         IN  <<m>> \o SortedSeq(S \ {m})

\* Fault variant of sorted(...): the keys in insertion order
sorted_keys_insertion(nov) == nov.keys

sorted_keys(nov) == SortedSeq(DOMAIN nov.chapters)

(***************************************************************************)
(* Novel.get_task                                                          *)
(***************************************************************************)
NoTask == <<>>

\* The for loop over the sorted keys, from position k on.
RECURSIVE chapter_scan(_, _, _)
chapter_scan(nov, order, k) ==
    IF k > Len(order) THEN NoTask
    ELSE LET index == order[k]
             chapter == nov.chapters[index]
             requirements == get_requirements(chapter)
         IN  IF requirements # <<>>
             THEN <<index, chapter.original, requirements[1]>>
             ELSE chapter_scan(nov, order, k + 1)

get_task(nov) ==
    LET novel_requirement == get_novel_requirements(nov)
    IN  IF novel_requirement # False
        THEN IF DOMAIN nov.chapters # {}
             THEN LET first_chapter_idx == sorted_keys(nov)[1]
                  IN  <<-1, nov.chapters[first_chapter_idx].original, novel_requirement>>
             ELSE NoTask
        ELSE chapter_scan(nov, sorted_keys(nov), 1)

(***************************************************************************)
(* Novel.add_chapters: the batch is a dict of chapter texts, given as the  *)
(* sequence of its items (index, text) in insertion order                  *)
(***************************************************************************)
\* Fault variant of _filter_existing: nothing is filtered out
filter_existing_none(nov, batch) == batch

filter_existing(nov, batch) ==
    LET IsNew(item) == item[1] \notin DOMAIN nov.chapters
    IN  SelectSeq(batch, IsNew)

\* self.indexed_chapters[index] = chapter
set_chapter(nov, index, chapter) ==
    [nov EXCEPT
        !.keys = IF index \in DOMAIN nov.chapters THEN @ ELSE Append(@, index),
        !.chapters = [i \in DOMAIN nov.chapters \cup {index} |->
                         IF i = index THEN chapter ELSE nov.chapters[i]]]

RECURSIVE add_each(_, _, _)
add_each(nov, batch, k) ==
    IF k > Len(batch) THEN nov
    ELSE add_each(set_chapter(nov, batch[k][1], Chapter(batch[k][2])), batch, k + 1)

\* Fault variant of add_chapters: the batch is added as it comes
add_chapters_unfiltered(nov, batch) == add_each(nov, batch, 1)

add_chapters(nov, batch) == add_each(nov, filter_existing(nov, batch), 1)

(***************************************************************************)
(* The translation workflow (TranslationWorkflowFactory)                   *)
(***************************************************************************)
\* TranslationState as translate_chapter builds it
InitialTranslationState ==
    [translation |-> "", fluent_translation |-> "", feedback |-> "",
     feedback_rout_loops |-> 0]

\* Translator.translate: {"translation": ...}
translate(state) == [state EXCEPT !.translation = "translation"]

\* state[key] = value
set_key(state, key, value) ==
    [k \in DOMAIN state \cup {key} |-> IF k = key THEN value ELSE state[k]]

\* Fault variant of increment_feedback: the counter goes up by two
increment_feedback_by_two(state) ==
    LET with_counter == IF "feedback_rout_loops" \in DOMAIN state THEN state
                        ELSE set_key(state, "feedback_rout_loops", 0)
    IN  [with_counter EXCEPT !.feedback_rout_loops = @ + 2]

\* FeedbackRouter.increment_feedback: a state without the counter gets it
\* with 0 first
increment_feedback(state) ==
    LET with_counter == IF "feedback_rout_loops" \in DOMAIN state THEN state
                        ELSE set_key(state, "feedback_rout_loops", 0)
    IN  [with_counter EXCEPT !.feedback_rout_loops = @ + 1]

\* JuniorEditor.review_translation: {"feedback": ...}; the model's reply
\* holds the approval marker or does not
review_translation(state, approves) ==
    [state EXCEPT !.feedback =
        IF approves THEN APPROVED_RESPONSE_MARKER ELSE REJECTED_RESPONSE]

\* FluencyEditor.improve_fluency: {"fluent_translation": ...}
improve_fluency(state) == [state EXCEPT !.fluent_translation = "fluent translation"]

\* Fault variant of _route_increment_exceed: > for >=
route_increment_exceed_gt(state, max) == state.feedback_rout_loops > max

\* _route_increment_exceed
route_increment_exceed(state, max) == state.feedback_rout_loops >= max

\* Fault variant of _route_junior_pass: every review passes
route_junior_pass_always(state) == state.feedback = state.feedback

\* _route_junior_pass: APPROVED_RESPONSE_MARKER in state["feedback"]
route_junior_pass(state) == state.feedback = APPROVED_RESPONSE_MARKER

\* Fault variant of _add_routing: the exceeded counter leads to END, past
\* the fluency_editor
next_node_skip_fluency(node, state, max) ==
    CASE node = "START" -> "translator"
      [] node = "translator" -> "feedback_router"
      [] node = "feedback_router" ->
            IF state.feedback_rout_loops >= max THEN "END" ELSE "junior_editor"
      [] node = "junior_editor" ->
            IF state.feedback = APPROVED_RESPONSE_MARKER THEN "fluency_editor" ELSE "translator"
      [] node = "fluency_editor" -> "END"

\* _add_routing: the node that follows `node`
next_node(node, state, max) ==
    CASE node = "START" -> "translator"
      [] node = "translator" -> "feedback_router"
      [] node = "feedback_router" ->
            IF route_increment_exceed(state, max) THEN "fluency_editor" ELSE "junior_editor"
      [] node = "junior_editor" ->
            IF route_junior_pass(state) THEN "fluency_editor" ELSE "translator"
      [] node = "fluency_editor" -> "END"

(***************************************************************************)
(* NovelTranslator: what each branch of process_next_task does to the      *)
(* Novel                                                                   *)
(***************************************************************************)
\* Fault variant of case Requirement.SUMMARY: the summary of every chapter is set
set_summary_every_chapter(nov, index) ==
    [nov EXCEPT !.chapters = [i \in DOMAIN @ |-> [@[i] EXCEPT !.summary = "holder_summary"]]]

\* case Requirement.SUMMARY
set_summary(nov, index) ==
    [nov EXCEPT !.chapters[index].summary = "holder_summary"]

\* case Requirement.ANNOTATION
set_annotated(nov, index) ==
    [nov EXCEPT !.chapters[index].annotated_status = TRUE]

\* Fault variant of ingest_chapter: the flag is set before the workflow runs
ingest_chapter_flag_first(nov, index, workflow_ok) ==
    IF index \in DOMAIN nov.chapters
    THEN [nov EXCEPT !.chapters[index].ingested_status = TRUE]
    ELSE nov

\* ingest_chapter: the flag is set after the workflow returned, and not at
\* all when the workflow raised
ingest_chapter(nov, index, workflow_ok) ==
    IF workflow_ok /\ index \in DOMAIN nov.chapters
    THEN [nov EXCEPT !.chapters[index].ingested_status = TRUE]
    ELSE nov

\* Fault variant of translate_chapter: the result key read is absent and
\* the default is None
translate_chapter_update_none(nov, index, result) ==
    IF index \in DOMAIN nov.chapters
    THEN [nov EXCEPT !.chapters[index].translation = None]
    ELSE nov

\* translate_chapter after ainvoke returned `result`
translate_chapter_update(nov, index, result) ==
    IF index \in DOMAIN nov.chapters
    THEN [nov EXCEPT !.chapters[index].translation = result.fluent_translation]
    ELSE nov

\* The members of class Requirement: the novel-level branch of
\* process_next_task evaluates Requirement.STYLE_GUIDE, Requirement.GENRES
\* and Requirement.LANGUAGE
RequirementMembers == {"SETUP", "ANNOTATION", "INGESTION", "TRANSLATION", "SUMMARY"}

\* The novel-level branch: "ok" when process_single_setup_requirement runs,
\* else the exception it ends with
novel_level_branch(requirement) ==
    IF ~({"STYLE_GUIDE", "GENRES", "LANGUAGE"} \subseteq RequirementMembers)
    THEN "AttributeError"
    ELSE IF requirement \in {"Style Guide", "Genres", "Language"}
         THEN "ok"
         ELSE "NotImplementedError"

(***************************************************************************)
(* The states a Novel can be in                                            *)
(***************************************************************************)
SetupValues(v) == {None, v}

\* The fields of a Chapter but its text, with any values
ChapterFlags ==
    [translation : {None, "fluent translation"},
     summary : {None, "holder_summary"},
     annotated_status : BOOLEAN,
     ingested_status : BOOLEAN]

\* A Chapter of index i with the flags g
ChapterWith(i, g) ==
    [original |-> ChapterText(i), translation |-> g.translation, summary |-> g.summary,
     annotated_status |-> g.annotated_status, ingested_status |-> g.ingested_status]

\* The insertion orders of the keys D
KeyOrders(D) ==
    {s \in [1..Cardinality(D) -> D] : \A a, b \in 1..Cardinality(D) : a # b => s[a] # s[b]}

\* The chapters of indices D, with any flags
ChapterMaps(D) == {[i \in D |-> ChapterWith(i, g[i])] : g \in [D -> ChapterFlags]}

\* Every Novel over the chapter indices: any chapters in any insertion
\* order, any flags, any setup fields
AllNovels ==
    UNION {[keys : KeyOrders(D), chapters : ChapterMaps(D),
            style_guide : SetupValues("style guide"),
            genres : SetupValues("genres"),
            language : SetupValues("language")] : D \in SUBSET ChapterIndices}

\* The Novel a NovelTranslator is constructed with: Novel(), or a preloaded
\* Novel whose setup fields are already there and whose chapters are to be
\* added
ConstructedNovels ==
    [keys : {<<>>}, chapters : {EmptyChapters},
     style_guide : SetupValues("style guide"),
     genres : SetupValues("genres"),
     language : SetupValues("language")]

\* The keys of the batches add_chapters is called with
BatchKeys ==
    {b \in UNION {[1..n -> ChapterIndices] : n \in 1..MaxBatch} :
        \A a, c \in 1..Len(b) : a # c => b[a] # b[c]}

\* The batches add_chapters is called with on the Novel nov: a new index
\* comes with its text, an index the Novel has comes with another text
Batches(nov) ==
    {[k \in DOMAIN b |-> <<b[k], IF b[k] \in DOMAIN nov.chapters
                                  THEN RevisedText(b[k]) ELSE ChapterText(b[k])>>] :
         b \in BatchKeys}

\* _update_novel_from_setup_result has not been called
NoResult == [style_guide |-> "not called", genres |-> "not called", language |-> "not called"]

\* No get_task result is current
NotCalled == <<"not called">>

Min(a, b) == IF a <= b THEN a ELSE b

(***************************************************************************)
(* Initial states                                                          *)
(***************************************************************************)
InitRest ==
    /\ wf_pc = "idle"
    /\ wf_state = InitialTranslationState
    /\ wf_chapter = -1
    /\ translator_runs = 0
    /\ junior_runs = 0
    /\ fluency_runs = 0
    /\ last_node = "START"
    /\ task = NotCalled
    /\ last_outcome = "none"
    /\ prev_novel = novel
    /\ setup_requests = 0
    /\ setup_result = NoResult
    /\ indexed_chapters = <<>>
    /\ node_log = <<>>
    /\ done = {}

\* No knowledge graph operation has run on the empty graph
Documents == {"A", "B"}

\* No Novel is being ingested
NoDocuments ==
    [d \in Documents |-> [entities |-> <<>>, triplet |-> <<>>, step |-> "none",
                          ingested_status |-> FALSE]]

InitEntityRest ==
    /\ prev_nodes = kg_nodes
    /\ prev_rels = kg_rels
    /\ new_entities = <<>>
    /\ related_entities = <<>>
    /\ unified = [outcome |-> "not called", entities |-> <<>>]
    /\ updated = <<>>
    /\ merge_log = <<>>
    /\ triplets = <<>>
    /\ documents = NoDocuments
    /\ kg_op = "none"

EmptyGraph ==
    /\ kg_nodes = {}
    /\ kg_rels = {}
    /\ next_id = 1
    /\ InitEntityRest

\* NovelTranslator.__init__ with a configured max_feedback_loops
Init ==
    /\ novel \in ConstructedNovels
    /\ max_feedback_loops \in 1..MaxLoops
    /\ InitRest
    /\ EmptyGraph

\* The scheduler alone, on every Novel
InitSched ==
    /\ novel \in AllNovels
    /\ max_feedback_loops = DefaultMaxFeedbackLoops
    /\ InitRest
    /\ EmptyGraph

(***************************************************************************)
(* Actions                                                                 *)
(***************************************************************************)
WorkflowVars == <<wf_pc, wf_state, wf_chapter, translator_runs, junior_runs,
                  fluency_runs, last_node>>

WorkflowReset ==
    /\ wf_pc' = "idle"
    /\ wf_state' = InitialTranslationState
    /\ wf_chapter' = -1
    /\ translator_runs' = 0
    /\ junior_runs' = 0
    /\ fluency_runs' = 0
    /\ last_node' = "START"

\* NovelTranslator.add_chapters, between tasks
AddChapters ==
    /\ wf_pc = "idle"
    /\ \E batch \in Batches(novel) :
           /\ novel' = add_chapters(novel, batch)
           /\ indexed_chapters' = batch
    /\ prev_novel' = novel
    /\ task' = NotCalled
    /\ last_outcome' = "none"
    /\ UNCHANGED <<EntityVars, node_log, setup_result, max_feedback_loops, WorkflowVars, setup_requests, done>>

\* NovelTranslator.get_next_task
GetNextTask ==
    /\ wf_pc = "idle"
    /\ task' = get_task(novel)
    /\ UNCHANGED <<EntityVars, node_log, setup_result, indexed_chapters, novel, max_feedback_loops, WorkflowVars, last_outcome, prev_novel,
                   setup_requests, done>>

\* process_next_task: no task pending, returns None
ProcessNoTask ==
    /\ wf_pc = "idle"
    /\ get_task(novel) = NoTask
    /\ task' = NoTask
    /\ last_outcome' = "none"
    /\ prev_novel' = novel
    /\ UNCHANGED <<EntityVars, node_log, setup_result, indexed_chapters, novel, max_feedback_loops, WorkflowVars, setup_requests, done>>

\* process_next_task: the novel-level branch (chapter_index == -1), which
\* raises whatever the requirement
ProcessSetupTask ==
    /\ wf_pc = "idle"
    /\ get_task(novel) # NoTask
    /\ get_task(novel)[1] = -1
    /\ novel_level_branch(get_task(novel)[3]) # "ok"
    /\ task' = get_task(novel)
    /\ last_outcome' = "raised"
    /\ prev_novel' = novel
    /\ setup_requests' = Min(setup_requests + 1, MaxSetupRequests)
    /\ UNCHANGED <<EntityVars, node_log, setup_result, indexed_chapters, novel, max_feedback_loops, WorkflowVars, done>>

\* A chapter-level task whose requirement is req is pending
ChapterTaskPending(req) ==
    /\ wf_pc = "idle"
    /\ get_task(novel) # NoTask
    /\ get_task(novel)[1] # -1
    /\ get_task(novel)[3] = req

\* The bookkeeping of a chapter-level task that ended with `outcome`
ChapterTaskEnds(t, outcome) ==
    /\ task' = t
    /\ last_outcome' = outcome
    /\ setup_requests' = 0
    /\ done' = IF outcome = "ok" THEN done \cup {<<t[1], t[3]>>} ELSE done

\* process_next_task: case Requirement.SUMMARY
ProcessSummary ==
    /\ ChapterTaskPending(SUMMARY)
    /\ novel' = set_summary(novel, get_task(novel)[1])
    /\ prev_novel' = novel
    /\ ChapterTaskEnds(get_task(novel), "ok")
    /\ UNCHANGED <<EntityVars, node_log, setup_result, indexed_chapters, max_feedback_loops, WorkflowVars>>

\* process_next_task: case Requirement.INGESTION, the ingestion workflow
\* returning or raising
ProcessIngestion ==
    /\ ChapterTaskPending(INGESTION)
    /\ \E workflow_ok \in BOOLEAN :
          /\ novel' = ingest_chapter(novel, get_task(novel)[1], workflow_ok)
          /\ ChapterTaskEnds(get_task(novel), IF workflow_ok THEN "ok" ELSE "raised")
    /\ prev_novel' = novel
    /\ UNCHANGED <<EntityVars, node_log, setup_result, indexed_chapters, max_feedback_loops, WorkflowVars>>

\* process_next_task: case Requirement.ANNOTATION
ProcessAnnotation ==
    /\ ChapterTaskPending(ANNOTATION)
    /\ novel' = set_annotated(novel, get_task(novel)[1])
    /\ prev_novel' = novel
    /\ ChapterTaskEnds(get_task(novel), "ok")
    /\ UNCHANGED <<EntityVars, node_log, setup_result, indexed_chapters, max_feedback_loops, WorkflowVars>>

\* process_next_task: case Requirement.TRANSLATION, up to the ainvoke of
\* translate_chapter
ProcessTranslation ==
    /\ ChapterTaskPending(TRANSLATION)
    /\ task' = get_task(novel)
    /\ last_outcome' = "running"
    /\ prev_novel' = novel
    /\ setup_requests' = 0
    /\ wf_pc' = next_node("START", InitialTranslationState, max_feedback_loops)
    /\ wf_state' = InitialTranslationState
    /\ wf_chapter' = get_task(novel)[1]
    /\ translator_runs' = 0
    /\ junior_runs' = 0
    /\ fluency_runs' = 0
    /\ last_node' = "START"
    /\ UNCHANGED <<EntityVars, node_log, setup_result, indexed_chapters, novel, max_feedback_loops, done>>

OrchestratorVars == <<novel, max_feedback_loops, task, last_outcome, prev_novel,
                      setup_requests, done>>

\* The translator node
TranslatorStep ==
    /\ wf_pc = "translator"
    /\ wf_state' = translate(wf_state)
    /\ wf_pc' = next_node("translator", wf_state', max_feedback_loops)
    /\ translator_runs' = translator_runs + 1
    /\ last_node' = "translator"
    /\ UNCHANGED <<EntityVars, node_log, setup_result, indexed_chapters, OrchestratorVars, wf_chapter, junior_runs, fluency_runs>>

\* The feedback_router node
FeedbackRouterStep ==
    /\ wf_pc = "feedback_router"
    /\ wf_state' = increment_feedback(wf_state)
    /\ wf_pc' = next_node("feedback_router", wf_state', max_feedback_loops)
    /\ last_node' = "feedback_router"
    /\ UNCHANGED <<EntityVars, node_log, setup_result, indexed_chapters, OrchestratorVars, wf_chapter, translator_runs, junior_runs, fluency_runs>>

\* The junior_editor node, approving or not
JuniorEditorStep ==
    /\ wf_pc = "junior_editor"
    /\ \E approves \in BOOLEAN : wf_state' = review_translation(wf_state, approves)
    /\ wf_pc' = next_node("junior_editor", wf_state', max_feedback_loops)
    /\ junior_runs' = junior_runs + 1
    /\ last_node' = "junior_editor"
    /\ UNCHANGED <<EntityVars, node_log, setup_result, indexed_chapters, OrchestratorVars, wf_chapter, translator_runs, fluency_runs>>

\* The fluency_editor node
FluencyEditorStep ==
    /\ wf_pc = "fluency_editor"
    /\ wf_state' = improve_fluency(wf_state)
    /\ wf_pc' = next_node("fluency_editor", wf_state', max_feedback_loops)
    /\ fluency_runs' = fluency_runs + 1
    /\ last_node' = "fluency_editor"
    /\ UNCHANGED <<EntityVars, node_log, setup_result, indexed_chapters, OrchestratorVars, wf_chapter, translator_runs, junior_runs>>

\* A node that calls the language model raises: ainvoke raises, and so do
\* translate_chapter and process_next_task
WorkflowRaises ==
    /\ wf_pc \in {"translator", "junior_editor", "fluency_editor"}
    /\ WorkflowReset
    /\ last_outcome' = "raised"
    /\ UNCHANGED <<EntityVars, node_log, setup_result, indexed_chapters, novel, max_feedback_loops, task, prev_novel, setup_requests, done>>

\* translate_chapter after the workflow reached END
TranslateChapterReturns ==
    /\ wf_pc = "END"
    /\ novel' = translate_chapter_update(novel, wf_chapter, wf_state)
    /\ last_outcome' = "ok"
    /\ done' = done \cup {<<task[1], task[3]>>}
    /\ WorkflowReset
    /\ UNCHANGED <<EntityVars, node_log, setup_result, indexed_chapters, max_feedback_loops, task, prev_novel, setup_requests>>

WorkflowStep ==
    \/ TranslatorStep
    \/ FeedbackRouterStep
    \/ JuniorEditorStep
    \/ FluencyEditorStep
    \/ TranslateChapterReturns

Next ==
    \/ AddChapters
    \/ ProcessNoTask
    \/ ProcessSetupTask
    \/ ProcessSummary
    \/ ProcessIngestion
    \/ ProcessAnnotation
    \/ ProcessTranslation
    \/ WorkflowStep
    \/ WorkflowRaises

NextSched ==
    \/ AddChapters
    \/ GetNextTask

\* The orchestrator loop
Spec == Init /\ [][Next]_vars

\* The orchestrator loop with a workflow that runs its next node
SpecLoop == Init /\ [][Next]_vars /\ WF_vars(WorkflowStep)

\* get_task and add_chapters on every Novel
SpecSched == InitSched /\ [][NextSched]_vars

(***************************************************************************)
(* Properties                                                              *)
(***************************************************************************)
WorkflowRunning == wf_pc \notin {"idle", "END"}

\* Every review of the invocation so far rejected (an approval leads to the
\* fluency_editor, after which no review runs)
EveryReviewRejected == wf_state.feedback # APPROVED_RESPONSE_MARKER

\* C1: for every configured max_feedback_loops >= 1 and whatever the
\* reviews answer, the translator runs at most max_feedback_loops times in
\* an invocation of the translation workflow, and the invocation reaches END
\* (unless a node raises, which ends the invocation as well).
C1_BoundedLoopTerminates ==
    /\ [](translator_runs <= max_feedback_loops)
    /\ [](WorkflowRunning => <>(wf_pc = "END" \/ last_outcome = "raised"))

C1_Witness ==
    /\ wf_pc = "END"
    /\ max_feedback_loops >= 2
    /\ translator_runs = max_feedback_loops

C3_FluencyOnceAndLast ==
    /\ fluency_runs <= 1
    /\ (wf_pc = "END" => fluency_runs = 1 /\ last_node = "fluency_editor")
    /\ (fluency_runs = 1 => wf_pc = "END")

C3_Witness ==
    /\ wf_pc = "END"
    /\ wf_state.feedback = APPROVED_RESPONSE_MARKER
    /\ wf_state.feedback_rout_loops < max_feedback_loops

\* The outstanding requirements of a Novel: its unset setup fields and the
\* unsatisfied requirements of its chapters
RECURSIVE ChapterOutstanding(_, _)
ChapterOutstanding(nov, S) ==
    IF S = {} THEN 0
    ELSE LET i == CHOOSE x \in S : TRUE
         IN  Len(get_requirements(nov.chapters[i])) + ChapterOutstanding(nov, S \ {i})

Outstanding(nov) ==
    (IF nov.style_guide = None THEN 1 ELSE 0)
    + (IF nov.genres = None THEN 1 ELSE 0)
    + (IF nov.language = None THEN 1 ELSE 0)
    + ChapterOutstanding(nov, DOMAIN nov.chapters)

\* C5: a task that process_next_task processed successfully leaves the
\* Novel with exactly one outstanding requirement fewer than before.
C5_ProgressByOne ==
    last_outcome = "ok" => Outstanding(novel) = Outstanding(prev_novel) - 1

C5_Witness ==
    /\ last_outcome = "ok"
    /\ task # NotCalled /\ task # NoTask
    /\ task[3] = TRANSLATION
    /\ Cardinality(DOMAIN novel.chapters) >= 2

\* The setup fields of a Novel
SetupFields == {"style_guide", "genres", "language"}

\* C6 as stated: from a Novel with a chapter and no setup field set,
\* process_next_task receives the Setup task at most three times in a row.
C6_SetupAtMostThreeTimes ==
    (/\ DOMAIN novel.chapters # {}
     /\ novel.style_guide = None /\ novel.genres = None /\ novel.language = None)
        => setup_requests <= Cardinality(SetupFields)

\* The smallest chapter index of a Novel that has chapters
SmallestIndex(nov) == CHOOSE i \in DOMAIN nov.chapters : \A j \in DOMAIN nov.chapters : i <= j

SetupIncomplete(nov) ==
    nov.style_guide = None \/ nov.genres = None \/ nov.language = None

\* C7: while a setup field is unset, get_task returns (-1, text of the
\* chapter of smallest index, SETUP), whatever the flags of the chapters and
\* the order they were added in, and None when there is no chapter.
C7_SetupTaskFirst ==
    (task # NotCalled /\ SetupIncomplete(novel)) =>
        IF DOMAIN novel.chapters = {}
        THEN task = NoTask
        ELSE task = <<-1, ChapterText(SmallestIndex(novel)), SETUP>>

C7_Witness ==
    /\ task # NotCalled /\ task # NoTask
    /\ task[1] = -1
    /\ Len(novel.keys) >= 2
    /\ novel.keys[1] # SmallestIndex(novel)
    /\ \E i \in DOMAIN novel.chapters : novel.chapters[i].ingested_status

\* The first unsatisfied requirement of a chapter in the order Summary,
\* Ingestion, Annotation, Translation, None when all are satisfied
FirstUnsatisfied(c) ==
    IF c.summary = None THEN SUMMARY
    ELSE IF ~c.ingested_status THEN INGESTION
    ELSE IF ~c.annotated_status THEN ANNOTATION
    ELSE IF c.translation = None THEN TRANSLATION
    ELSE None

PendingChapters(nov) ==
    {i \in DOMAIN nov.chapters : FirstUnsatisfied(nov.chapters[i]) # None}

\* C8: with the three setup fields set, get_task returns the first
\* unsatisfied requirement (Summary, Ingestion, Annotation, Translation) of
\* the chapter of smallest index that has one, and None exactly when no
\* chapter has one.
C8_ChapterTaskOrder ==
    (task # NotCalled /\ ~SetupIncomplete(novel)) =>
        /\ (task = NoTask) <=> (PendingChapters(novel) = {})
        /\ PendingChapters(novel) # {} =>
              LET m == CHOOSE i \in PendingChapters(novel) :
                           \A j \in PendingChapters(novel) : i <= j
              IN  task = <<m, ChapterText(m), FirstUnsatisfied(novel.chapters[m])>>

C8_Witness ==
    /\ task # NotCalled /\ task # NoTask
    /\ ~SetupIncomplete(novel)
    /\ task[1] = 1
    /\ task[3] = ANNOTATION
    /\ novel.keys = <<1, 0>>
    /\ novel.chapters[1].translation = None

\* C9: get_task never returns a (chapter index, requirement) pair that was
\* processed successfully before, add_chapters being called between tasks.
C9_NoTaskTwice ==
    get_task(novel) # NoTask =>
        <<get_task(novel)[1], get_task(novel)[3]>> \notin done

C9_Witness ==
    /\ Cardinality(done) >= 4
    /\ task = NotCalled
    /\ prev_novel # novel
    /\ get_task(novel) # NoTask

\* C10: when process_next_task raised, no field of the Novel or of a
\* chapter has changed and get_task returns the same task again.
C10_RaiseChangesNothing ==
    last_outcome = "raised" =>
        /\ novel = prev_novel
        /\ get_task(novel) = task

C10_Witness ==
    /\ last_outcome = "raised"
    /\ task[3] \in {INGESTION, TRANSLATION}
    /\ done # {}


(***************************************************************************)
(* Entities (src/core/entities.py)                                         *)
(***************************************************************************)
MaxNames == 2
MaxEntities == 3

\* The names that occur in entities; two of them differ in case only
Names == {"Jack", "jack", "Jack Crowley", "Captain Crowley"}

\* str.lower
lower(name) ==
    CASE name = "Jack" -> "jack"
      [] name = "jack" -> "jack"
      [] name = "Jack Crowley" -> "jack crowley"
      [] name = "Captain Crowley" -> "captain crowley"

NameEntry(name, is_weak) == [name |-> name, is_weak |-> is_weak]

\* id stands for the identity of the Python object, id(entity)
Entity(id, names, chapter_idx) ==
    [id |-> id, names |-> names, chapter_idx |-> chapter_idx]

\* [entry.name for entry in names if entry.is_weak == is_weak]
NamesWhere(names, is_weak) ==
    LET F[i \in 0..Len(names)] ==
            IF i = 0 THEN <<>>
            ELSE IF names[i].is_weak = is_weak THEN Append(F[i - 1], names[i].name)
                 ELSE F[i - 1]
    IN  F[Len(names)]

\* Fault variant of Entity.strong_names: every name counts as strong
strong_names_all(entity) == [i \in DOMAIN entity.names |-> entity.names[i].name]

strong_names(entity) == NamesWhere(entity.names, FALSE)

weak_names(entity) == NamesWhere(entity.names, TRUE)

all_names(entity) == [i \in DOMAIN entity.names |-> entity.names[i].name]

Range(seq) == {seq[i] : i \in DOMAIN seq}

add_name_entry(names, name_entry) ==
    LET existing_names == {lower(names[i].name) : i \in DOMAIN names}
    IN  IF lower(name_entry.name) \notin existing_names
        THEN Append(names, name_entry)
        ELSE names

merge_entity(self, entity) ==
    LET current_names == {self.names[i].name : i \in DOMAIN self.names}
        F[k \in 0..Len(entity.names)] ==
            IF k = 0 THEN self.names
            ELSE IF entity.names[k].name \notin current_names
                 THEN add_name_entry(F[k - 1], entity.names[k])
                 ELSE F[k - 1]
    IN  Entity(self.id, F[Len(entity.names)], self.chapter_idx \o entity.chapter_idx)

(***************************************************************************)
(* Unification (src/workflows/ingestion_nodes/term_creator.py)             *)
(***************************************************************************)
IndexError == "IndexError"

\* total_strong_names, as the graph keeps them: each name once, in insertion order
add_nodes(entities) ==
    LET Total[i \in 0..Len(entities)] ==
            IF i = 0 THEN <<>> ELSE Total[i - 1] \o strong_names(entities[i])
        total_strong_names == Total[Len(entities)]
        G[i \in 0..Len(total_strong_names)] ==
            IF i = 0 THEN <<>>
            ELSE IF total_strong_names[i] \in Range(G[i - 1]) THEN G[i - 1]
                 ELSE Append(G[i - 1], total_strong_names[i])
    IN  G[Len(total_strong_names)]

\* anchor = strong_names[0] of an entity without strong names
add_edges_raises(entities) ==
    \E i \in DOMAIN entities : strong_names(entities[i]) = <<>>

add_edges(entities) ==
    UNION {LET sn == strong_names(entities[i])
           IN  {{sn[1], sn[k]} : k \in 2..Len(sn)} : i \in DOMAIN entities}

\* mapping[name] = entity, a later entity replacing an earlier one
map_names(entities) ==
    LET named == UNION {Range(strong_names(entities[i])) : i \in DOMAIN entities}
        last(name) == CHOOSE i \in DOMAIN entities :
                          /\ name \in Range(strong_names(entities[i]))
                          /\ \A j \in DOMAIN entities :
                                 name \in Range(strong_names(entities[j])) => j <= i
    IN  [name \in named |-> entities[last(name)]]

RECURSIVE Reach(_, _)
Reach(S, edges) ==
    LET T == S \cup UNION {e \in edges : e \cap S # {}}
    IN  IF T = S THEN S ELSE Reach(T, edges)

\* Fault variant of nx.connected_components: every name in one component
connected_components_one(nodes, edges) ==
    IF nodes = <<>> THEN <<>> ELSE <<Range(nodes)>>

\* nx.connected_components: the components in the order of their first node
connected_components(nodes, edges) ==
    LET C[i \in 0..Len(nodes)] ==
            IF i = 0 THEN <<>>
            ELSE IF \E k \in DOMAIN C[i - 1] : nodes[i] \in C[i - 1][k] THEN C[i - 1]
                 ELSE Append(C[i - 1], Reach({nodes[i]}, edges))
    IN  C[Len(nodes)]

Perms(S) ==
    {p \in [1..Cardinality(S) -> S] : \A x \in S : \E i \in DOMAIN p : p[i] = x}

\* The entities of a component; a set of names is iterated in no fixed order,
\* so the entities can come in any order
connected_entities(component, mapping) ==
    Perms({mapping[name] : name \in component})

RECURSIVE find_related_entities(_, _, _)
find_related_entities(components, mapping, k) ==
    IF k > Len(components) THEN {<<>>}
    ELSE {<<first>> \o rest :
              first \in connected_entities(components[k], mapping),
              rest \in find_related_entities(components, mapping, k + 1)}

combine_list(entity_list) ==
    LET B[i \in 1..Len(entity_list)] ==
            IF i = 1 THEN entity_list[1] ELSE merge_entity(B[i - 1], entity_list[i])
    IN  B[Len(entity_list)]

combine_entities(related) == [k \in DOMAIN related |-> combine_list(related[k])]

(***************************************************************************)
(* The graph store and EntityOperations.get_all_entities                   *)
(***************************************************************************)
Node(nid, names, chapter_idx) ==
    [nid |-> nid, names |-> names, chapter_idx |-> chapter_idx]

NodeIds(nodes) == {n.nid : n \in nodes}

NodeById(nodes, nid) == CHOOSE n \in nodes : n.nid = nid

\* reconstruct_entities over the nodes, one new object per node
get_all_entities(nodes) ==
    LET order == SortedSeq(NodeIds(nodes))
    IN  [k \in DOMAIN order |->
            Entity(k, NodeById(nodes, order[k]).names, NodeById(nodes, order[k]).chapter_idx)]

(***************************************************************************)
(* Inputs of the unification                                               *)
(***************************************************************************)
StrongEntries == {NameEntry(n, FALSE) : n \in Names}
WeakEntries == {NameEntry(n, TRUE) : n \in Names}

DistinctNames(names) ==
    \A i, j \in DOMAIN names : i # j => names[i].name # names[j].name

\* _entity_schema_decomposer: the name, the strong matches, then the weak matches
ExtractedNameLists ==
    {names \in UNION {[1..n -> StrongEntries \cup WeakEntries] : n \in 1..MaxNames} :
        /\ ~names[1].is_weak
        /\ DistinctNames(names)
        /\ \A i, j \in DOMAIN names : (i < j /\ names[i].is_weak) => names[j].is_weak}

\* An entity whose names are all weak
WeakOnlyNameLists == {<<e>> : e \in WeakEntries}

NameLists == ExtractedNameLists \cup WeakOnlyNameLists

NameListSeqs(n) == [1..n -> NameLists]

\* Entity objects for a list of name lists, chapter_idx=[0] as the decomposer sets it
NewEntities(lists, first_id) ==
    [k \in DOMAIN lists |-> Entity(first_id + k - 1, lists[k], <<0>>)]

StoredNodes(lists) == {Node(k, lists[k], <<0>>) : k \in DOMAIN lists}

SchedulerIdle ==
    /\ novel = [keys |-> <<>>, chapters |-> EmptyChapters, style_guide |-> None,
                genres |-> None, language |-> None]
    /\ max_feedback_loops = DefaultMaxFeedbackLoops
    /\ InitRest

SchedulerVars == <<novel, max_feedback_loops, WorkflowVars, task, last_outcome,
                   prev_novel, setup_requests, setup_result, indexed_chapters, node_log, done>>

\* A graph of up to MaxEntities - 1 nodes without relationships
InitUnify ==
    /\ SchedulerIdle
    /\ \E n \in 0..(MaxEntities - 1) : \E lists \in NameListSeqs(n) :
           /\ kg_nodes = StoredNodes(lists)
           /\ next_id = n + 1
    /\ kg_rels = {}
    /\ InitEntityRest

\* EntityCreator._unify_entities(new_entities), called once on the graph
UnifyEntities ==
    /\ kg_op = "none"
    /\ \E n \in 1..(MaxEntities - Cardinality(kg_nodes)) : \E lists \in NameListSeqs(n) :
           LET old_entities == get_all_entities(kg_nodes)
               new == NewEntities(lists, Len(old_entities) + 1)
               entities == old_entities \o new
               mapping == map_names(entities)
               nodes == add_nodes(entities)
           IN  /\ new_entities' = new
               /\ IF add_edges_raises(entities)
                  THEN /\ related_entities' = <<>>
                       /\ unified' = [outcome |-> IndexError, entities |-> <<>>]
                  ELSE \E related \in find_related_entities(
                              connected_components(nodes, add_edges(entities)), mapping, 1) :
                           /\ related_entities' = related
                           /\ unified' = [outcome |-> "returned", entities |-> combine_entities(related)]
    /\ kg_op' = "unify"
    /\ prev_nodes' = kg_nodes
    /\ prev_rels' = kg_rels
    /\ UNCHANGED <<SchedulerVars, documents, kg_nodes, kg_rels, next_id, updated, merge_log, triplets>>

NextUnify == UnifyEntities

SpecUnify == InitUnify /\ [][NextUnify]_vars


(***************************************************************************)
(* Properties of the unification                                           *)
(***************************************************************************)
\* The entities the most recent _unify_entities call worked on
SourceEntities == Range(get_all_entities(prev_nodes) \o new_entities)

UnifyReturned == kg_op = "unify" /\ unified.outcome # IndexError

HasStrongName(e) == \E i \in DOMAIN e.names : ~e.names[i].is_weak

ShareStrong(a, b) ==
    \E i \in DOMAIN a.names, j \in DOMAIN b.names :
        /\ ~a.names[i].is_weak
        /\ ~b.names[j].is_weak
        /\ a.names[i].name = b.names[j].name

ShareName(a, b) ==
    \E i \in DOMAIN a.names, j \in DOMAIN b.names : a.names[i].name = b.names[j].name

\* The entities linked to those of S through a chain of shared strong names
RECURSIVE StrongClosure(_)
StrongClosure(S) ==
    LET T == S \cup {e \in SourceEntities : \E f \in S : ShareStrong(e, f)}
    IN  IF T = S THEN S ELSE StrongClosure(T)

Carries(u, name) == \E i \in DOMAIN u.names : lower(u.names[i].name) = lower(name)

CarriesAllNames(u, e) == \A i \in DOMAIN e.names : Carries(u, e.names[i].name)

\* C11: when A and B share a strong name, B and C share a strong name and A
\* and C share none, the unification returns exactly one entity for their
\* component, and it carries every name, strong or weak, of A, B and C,
\* wherever A, B and C stand in the existing and the new entities.
C11_TransitiveMergeCarriesAllNames ==
    UnifyReturned =>
        \A A, B, C \in SourceEntities :
            (ShareStrong(A, B) /\ ShareStrong(B, C) /\ ~ShareStrong(A, C)) =>
                /\ Cardinality({k \in DOMAIN unified.entities :
                       \E e \in {A, B, C} : \E i \in DOMAIN e.names :
                           ~e.names[i].is_weak /\ Carries(unified.entities[k], e.names[i].name)}) = 1
                /\ \E k \in DOMAIN unified.entities :
                       \A e \in {A, B, C} : CarriesAllNames(unified.entities[k], e)

\* C12: entities that are not linked through a chain of shared strong names
\* are never combined: the entities merged into one returned entity are
\* linked pairwise, and the returned entity has no name from anywhere else,
\* also when unlinked entities share weak names.
C12_NoMergeWithoutStrongLink ==
    UnifyReturned =>
        \A k \in DOMAIN unified.entities :
            /\ \A a, b \in Range(related_entities[k]) : b \in StrongClosure({a})
            /\ \A i \in DOMAIN unified.entities[k].names :
                   \E e \in Range(related_entities[k]) :
                       unified.entities[k].names[i] \in Range(e.names)

\* Two entities that share a name which is weak in one of them, share no
\* strong name, and come back from the unification as two entities
C12_Witness ==
    /\ UnifyReturned
    /\ Len(unified.entities) = 2
    /\ \E a, b \in SourceEntities :
           /\ a.id # b.id
           /\ ShareName(a, b)
           /\ b \notin StrongClosure({a})

\* C17: an entity without strong names, existing or new, causes no merge and
\* no error: the unification returns, and returns it as its own entity.
C17_WeakOnlyEntityReturnedUnmerged ==
    kg_op = "unify" =>
        \A e \in SourceEntities :
            ~HasStrongName(e) =>
                /\ unified.outcome # IndexError
                /\ \E k \in DOMAIN unified.entities :
                       unified.entities[k].names = e.names /\ unified.entities[k].chapter_idx = e.chapter_idx

JackCrowleyExisting ==
    <<NameEntry("Jack", FALSE), NameEntry("Jack Crowley", FALSE)>>

JackCrowleyNew ==
    <<NameEntry("Captain Crowley", FALSE), NameEntry("Jack Crowley", TRUE)>>

JackCrowleyScenario ==
    /\ kg_op = "unify"
    /\ prev_nodes = StoredNodes(<<JackCrowleyExisting>>)
    /\ new_entities = NewEntities(<<JackCrowleyNew>>, 2)

\* C18 as stated: existing (Jack, Jack Crowley) and new (Captain Crowley,
\* weak Jack Crowley) unify to one entity with the three names, Jack Crowley
\* once and strong.
C18_JackCrowleyMerged ==
    JackCrowleyScenario =>
        /\ unified.outcome # IndexError
        /\ Len(unified.entities) = 1
        /\ {unified.entities[1].names[i].name : i \in DOMAIN unified.entities[1].names}
               = {"Jack", "Jack Crowley", "Captain Crowley"}
        /\ Len(unified.entities[1].names) = 3
        /\ NameEntry("Jack Crowley", FALSE) \in Range(unified.entities[1].names)

\* C18, amended: the two entities share no strong name, so the unification
\* returns both, each with the names it came with.
C18_JackCrowleyUnmerged ==
    JackCrowleyScenario =>
        /\ unified.outcome # IndexError
        /\ Len(unified.entities) = 2
        /\ unified.entities[1].names = JackCrowleyExisting
        /\ unified.entities[2].names = JackCrowleyNew

C18_Witness == JackCrowleyScenario /\ unified.outcome # IndexError

\* The sources of the k-th returned entity: every entity of its component
ComponentSources(k) == StrongClosure(Range(related_entities[k]))

\* C19: the names of a merged entity are the union of the names of its
\* sources with no name twice, case ignored, and a name that is weak in one
\* source and strong in another is strong in the merged entity, whichever
\* source is the base.
C19_NamesUnionStrongPreferred ==
    UnifyReturned =>
        \A k \in DOMAIN unified.entities :
            LET merged == unified.entities[k]
                sources == ComponentSources(k)
            IN  /\ \A e \in sources : CarriesAllNames(merged, e)
                /\ \A i \in DOMAIN merged.names :
                       \E e \in sources : Carries(e, merged.names[i].name)
                /\ \A i, j \in DOMAIN merged.names :
                       i # j => lower(merged.names[i].name) # lower(merged.names[j].name)
                /\ \A i \in DOMAIN merged.names :
                       (\E e \in sources : \E j \in DOMAIN e.names :
                            /\ lower(e.names[j].name) = lower(merged.names[i].name)
                            /\ ~e.names[j].is_weak)
                       => ~merged.names[i].is_weak

\* C20: the chapter indices of a merged entity are the set union of the
\* chapter indices of its sources: none missing, none twice.
C20_ChapterIndicesSetUnion ==
    UnifyReturned =>
        \A k \in DOMAIN unified.entities :
            LET idx == unified.entities[k].chapter_idx
            IN  /\ Range(idx) = UNION {Range(e.chapter_idx) : e \in ComponentSources(k)}
                /\ \A i, j \in DOMAIN idx : i # j => idx[i] # idx[j]


(***************************************************************************)
(* EntityOperations.update_entities                                        *)
(* (src/knowledge_graph/entity_operations.py)                              *)
(***************************************************************************)
MaxRels == 2
MaxNewEntities == 1

RELATES == "RELATES"
Predicates == {"KNOWS", "SERVES"}

\* A relationship; rid is its element id, predicate its property of that name
Rel(rid, start, end, type, predicate) ==
    [rid |-> rid, start |-> start, end |-> end, type |-> type, predicate |-> predicate]

Store(nodes, rels, id, log) ==
    [nodes |-> nodes, rels |-> rels, next_id |-> id, log |-> log]

RECURSIVE SetToSeq(_)
SetToSeq(S) ==
    IF S = {} THEN <<>>
    ELSE LET x == CHOOSE y \in S : TRUE IN <<x>> \o SetToSeq(S \ {x})

\* MATCH (e:Entity) WHERE ANY(existing_name IN e.strong_names
\*                            WHERE existing_name IN $strong_names)
find_matching_entities(nodes, names) ==
    IF names = <<>> THEN {}
    ELSE {e \in nodes : Range(strong_names(e)) \cap Range(names) # {}}

create_new_entity(store, entity) ==
    [store EXCEPT !.nodes = @ \cup {Node(store.next_id, entity.names, entity.chapter_idx)},
                  !.next_id = @ + 1]

\* MATCH (e:Entity)-[r:RELATES]-(other) WHERE elementId(e) IN $node_ids
collect_relationships(rels, node_ids) ==
    UNION {{[e |-> e, rid |-> r.rid, other |-> IF r.start = e THEN r.end ELSE r.start,
             rel_type |-> r.predicate, is_outgoing |-> (r.start = e)] :
                r \in {q \in rels : q.type = RELATES /\ (q.start = e \/ q.end = e)}} :
           e \in node_ids}

\* MATCH (e:Entity) WHERE elementId(e) IN $node_ids DETACH DELETE e
delete_entities(store, node_ids) ==
    [store EXCEPT !.nodes = {n \in @ : n.nid \notin node_ids},
                  !.rels = {r \in @ : r.start \notin node_ids /\ r.end \notin node_ids}]

rel_key(rel_record) ==
    <<rel_record.other, rel_record.rel_type,
      IF rel_record.is_outgoing THEN "outgoing" ELSE "incoming">>

\* Fault variant of _deduplicate_relationships: every collected record is kept
deduplicate_relationships_none(relationships) == relationships

\* One record for each key (other node, predicate, direction)
deduplicate_relationships(relationships) ==
    {CHOOSE r \in relationships : rel_key(r) = key :
         key \in {rel_key(r) : r \in relationships}}

\* CREATE (new_e)-[r:`rel_type`]->(other) or the reverse, SET r = $rel_props;
\* the MATCH finds nothing when the other node is gone
create_relationship(nodes, new_id, rel_info, rid) ==
    IF rel_info.other \notin NodeIds(nodes) THEN {}
    ELSE IF rel_info.is_outgoing
         THEN {Rel(rid, new_id, rel_info.other, rel_info.rel_type, rel_info.rel_type)}
         ELSE {Rel(rid, rel_info.other, new_id, rel_info.rel_type, rel_info.rel_type)}

recreate_relationships(nodes, new_id, relationships, first_rid) ==
    LET unique_relationships == SetToSeq(deduplicate_relationships(relationships))
    IN  UNION {create_relationship(nodes, new_id, unique_relationships[k], first_rid + k - 1) :
                   k \in DOMAIN unique_relationships}

merge_entities(store, new_entity, existing_entities) ==
    LET existing_node_ids == NodeIds(existing_entities)
        relationships == collect_relationships(store.rels, existing_node_ids)
        deleted == delete_entities(store, existing_node_ids)
        new_id == store.next_id
        nodes == deleted.nodes \cup {Node(new_id, new_entity.names, new_entity.chapter_idx)}
        created == recreate_relationships(nodes, new_id, relationships, new_id + 1)
    IN  Store(nodes, deleted.rels \cup created,
              new_id + 1 + Cardinality(relationships),
              Append(store.log, [superseded |-> existing_node_ids,
                                 relationships |-> relationships,
                                 new_node |-> new_id,
                                 created |-> created]))

RECURSIVE update_entities_tx(_, _, _)
update_entities_tx(store, entities, k) ==
    IF k > Len(entities) THEN store
    ELSE LET entity == entities[k]
             existing_entities == find_matching_entities(store.nodes, strong_names(entity))
         IN  IF strong_names(entity) = <<>>
             THEN update_entities_tx(create_new_entity(store, entity), entities, k + 1)
             ELSE IF existing_entities = {}
                  THEN update_entities_tx(create_new_entity(store, entity), entities, k + 1)
                  ELSE update_entities_tx(merge_entities(store, entity, existing_entities),
                                          entities, k + 1)

update_entities(nodes, rels, id, entities) ==
    update_entities_tx(Store(nodes, rels, id, <<>>), entities, 1)

\* The rows of the query of TripletOperations._get_entity_relationships_tx
get_entity_relationships(nodes, rels, entity_name) ==
    UNION {{[rid |-> r.rid, entity |-> e, predicate |-> r.predicate,
             related_entity |-> NodeById(nodes, IF r.start = e.nid THEN r.end ELSE r.start),
             direction |-> IF r.start = e.nid THEN "outgoing" ELSE "incoming"] :
                r \in {q \in rels : q.type = RELATES /\ (q.start = e.nid \/ q.end = e.nid)}} :
           e \in {n \in nodes : entity_name \in Range(all_names(n))}}

(***************************************************************************)
(* The knowledge graph under ingestion batches                             *)
(***************************************************************************)
NameIndex(name) ==
    CASE name = "Jack" -> 1
      [] name = "jack" -> 2
      [] name = "Jack Crowley" -> 3
      [] name = "Captain Crowley" -> 4

\* Graphs as add_entities and add_triplets build them: nodes with one strong
\* name each, and up to MaxRels RELATES relationships between them
GraphNodes(S) == {Node(NameIndex(n), <<NameEntry(n, FALSE)>>, <<0>>) : n \in S}

GraphRels(nodes) ==
    LET ids == NodeIds(nodes)
        candidates == {t \in ids \X ids \X Predicates : t[1] # t[2]}
        chosen == {T \in SUBSET candidates : Cardinality(T) <= MaxRels}
    IN  {{Rel(100 + 10 * t[1] + t[2] + (IF t[3] = "KNOWS" THEN 0 ELSE 50),
              t[1], t[2], RELATES, t[3]) : t \in T} : T \in chosen}

InitStore ==
    /\ SchedulerIdle
    /\ \E S \in SUBSET Names :
           /\ kg_nodes = GraphNodes(S)
           /\ kg_rels \in GraphRels(GraphNodes(S))
    /\ next_id = 200
    /\ InitEntityRest

\* The lists of up to MaxNewEntities entities an ingestion hands over
NewNameLists == UNION {NameListSeqs(n) : n \in 1..MaxNewEntities}

EntityLists == {NewEntities(lists, 1) : lists \in NewNameLists}

\* EntityCreator.create_entities from the extracted entities on:
\* _unify_entities, then kg_manager.update_entities
CreateEntities ==
    /\ kg_op = "none"
    /\ \E lists \in NewNameLists :
           LET old_entities == get_all_entities(kg_nodes)
               new == NewEntities(lists, Len(old_entities) + 1)
               entities == old_entities \o new
               mapping == map_names(entities)
               nodes == add_nodes(entities)
           IN  /\ new_entities' = new
               /\ IF add_edges_raises(entities)
                  THEN /\ related_entities' = <<>>
                       /\ unified' = [outcome |-> IndexError, entities |-> <<>>]
                       /\ UNCHANGED <<kg_nodes, kg_rels, next_id, updated, merge_log>>
                  ELSE \E related \in find_related_entities(
                              connected_components(nodes, add_edges(entities)), mapping, 1) :
                           LET new_unified_entities == combine_entities(related)
                               store == update_entities(kg_nodes, kg_rels, next_id,
                                                        new_unified_entities)
                           IN  /\ related_entities' = related
                               /\ unified' = [outcome |-> "returned",
                                              entities |-> new_unified_entities]
                               /\ updated' = new_unified_entities
                               /\ kg_nodes' = store.nodes
                               /\ kg_rels' = store.rels
                               /\ next_id' = store.next_id
                               /\ merge_log' = store.log
    /\ kg_op' = "create_entities"
    /\ prev_nodes' = kg_nodes
    /\ prev_rels' = kg_rels
    /\ UNCHANGED <<SchedulerVars, documents, triplets>>

\* EntityOperations.update_entities(entities)
UpdateEntities ==
    /\ kg_op = "none"
    /\ \E entities \in EntityLists :
           LET store == update_entities(kg_nodes, kg_rels, next_id, entities)
           IN  /\ updated' = entities
               /\ kg_nodes' = store.nodes
               /\ kg_rels' = store.rels
               /\ next_id' = store.next_id
               /\ merge_log' = store.log
    /\ kg_op' = "update_entities"
    /\ prev_nodes' = kg_nodes
    /\ prev_rels' = kg_rels
    /\ UNCHANGED <<SchedulerVars, documents, new_entities, related_entities, unified, triplets>>

\* EntityOperations.update_entities called again with the same list
UpdateEntitiesAgain ==
    /\ kg_op = "update_entities"
    /\ LET store == update_entities(kg_nodes, kg_rels, next_id, updated)
       IN  /\ kg_nodes' = store.nodes
           /\ kg_rels' = store.rels
           /\ next_id' = store.next_id
           /\ merge_log' = store.log
    /\ kg_op' = "update_entities again"
    /\ prev_nodes' = kg_nodes
    /\ prev_rels' = kg_rels
    /\ UNCHANGED <<SchedulerVars, documents, new_entities, related_entities, unified, updated, triplets>>

NextStore == CreateEntities \/ UpdateEntities \/ UpdateEntitiesAgain

SpecStore == InitStore /\ [][NextStore]_vars


(***************************************************************************)
(* Properties of the knowledge graph                                       *)
(***************************************************************************)
ShareStrongIgnoringCase(a, b) ==
    \E i \in DOMAIN a.names, j \in DOMAIN b.names :
        /\ ~a.names[i].is_weak
        /\ ~b.names[j].is_weak
        /\ lower(a.names[i].name) = lower(b.names[j].name)

NoSharedStrongName(nodes) ==
    \A a, b \in nodes : a.nid # b.nid => ~ShareStrongIgnoringCase(a, b)

NoDanglingRelationship(nodes, rels) ==
    \A r \in rels : r.start \in NodeIds(nodes) /\ r.end \in NodeIds(nodes)

\* C13: from a graph in which no two nodes share a strong name, one ingestion
\* batch (unification against all existing entities, then update_entities)
\* leads to a graph in which no two Entity nodes share a strong name, case
\* ignored, and every relationship has both its end nodes.
C13_BatchKeepsStrongNamesUnique ==
    (kg_op = "create_entities" /\ NoSharedStrongName(prev_nodes)) =>
        /\ NoSharedStrongName(kg_nodes)
        /\ NoDanglingRelationship(kg_nodes, kg_rels)

RelsOf(rels, nid) == {r \in rels : r.start = nid \/ r.end = nid}

\* X has the one relationship X-[KNOWS]->Y
OneKnows(rels, X, Y) ==
    /\ X.nid # Y.nid
    /\ Cardinality(RelsOf(rels, X.nid)) = 1
    /\ \E r \in RelsOf(rels, X.nid) :
           r.start = X.nid /\ r.end = Y.nid /\ r.type = RELATES /\ r.predicate = "KNOWS"

KnowsRows(name, Y) ==
    {row \in get_entity_relationships(kg_nodes, kg_rels, name) :
         /\ row.predicate = "KNOWS"
         /\ row.direction = "outgoing"
         /\ ShareName(row.related_entity, Y)}

\* C14: when X is persisted with the one relationship X-[KNOWS]->Y and a
\* batch merges X with a duplicate of X, the relationships queried by any
\* name of the merged node hold exactly one KNOWS relationship to Y.
C14_MergeKeepsOneKnows ==
    (kg_op = "create_entities" /\ unified.outcome = "returned") =>
        \A X, Y \in prev_nodes :
            (/\ OneKnows(prev_rels, X, Y)
             /\ \E dup \in Range(new_entities) : ShareStrong(dup, X) /\ ~ShareName(dup, Y))
            => /\ \E M \in kg_nodes : ShareStrong(M, X)
               /\ \A M \in kg_nodes :
                      ShareStrong(M, X) =>
                          \A name \in Range(all_names(M)) :
                              Cardinality(KnowsRows(name, Y)) = 1

NodeView(n) == [names |-> n.names, chapter_idx |-> n.chapter_idx]

RelView(nodes, r) ==
    [start |-> NodeView(NodeById(nodes, r.start)), end |-> NodeView(NodeById(nodes, r.end)),
     type |-> r.type, predicate |-> r.predicate]

\* The two graphs are equal up to the element ids
SameGraph(nodes1, rels1, nodes2, rels2) ==
    /\ \A v \in {NodeView(n) : n \in nodes1 \cup nodes2} :
           Cardinality({n \in nodes1 : NodeView(n) = v})
               = Cardinality({n \in nodes2 : NodeView(n) = v})
    /\ \A v \in {RelView(nodes1, r) : r \in rels1} \cup {RelView(nodes2, r) : r \in rels2} :
           Cardinality({r \in rels1 : RelView(nodes1, r) = v})
               = Cardinality({r \in rels2 : RelView(nodes2, r) = v})

\* C15: update_entities applied a second time with the same list leaves the
\* graph as the first application left it: no node twice, no relationship
\* removed or twice.
C15_UpdateTwiceIsUpdateOnce ==
    kg_op = "update_entities again" =>
        SameGraph(prev_nodes, prev_rels, kg_nodes, kg_rels)

Recreated(m, r) ==
    {c \in m.created :
         /\ c.predicate = r.rel_type
         /\ IF r.is_outgoing
            THEN c.start = m.new_node /\ c.end = r.other
            ELSE c.start = r.other /\ c.end = m.new_node}

\* C16: when _merge_entities replaces two or more stored nodes, each
\* relationship they had with a third node is recreated on the new node
\* exactly once for its other node, predicate and direction: once when two
\* replaced nodes had the same one, and each of those that differ in the
\* other node, the predicate or the direction.
C16_RelationshipsRecreatedOncePerKey ==
    \A k \in DOMAIN merge_log :
        LET m == merge_log[k]
        IN  Cardinality(m.superseded) >= 2 =>
                /\ \A r \in m.relationships :
                       r.other \notin m.superseded => Cardinality(Recreated(m, r)) = 1
                /\ kg_op = "update_entities" => m.created \subseteq kg_rels

\* Two replaced nodes had the same relationship with a third node, and a
\* third relationship with it differs
C16_Witness ==
    /\ kg_op = "update_entities"
    /\ \E k \in DOMAIN merge_log :
           LET m == merge_log[k]
           IN  /\ Cardinality(m.superseded) >= 2
               /\ \E r1, r2 \in m.relationships :
                      /\ r1.e # r2.e
                      /\ rel_key(r1) = rel_key(r2)
                      /\ r1.other \notin m.superseded
                      /\ Cardinality(m.created) = 1

\* C21: after update_entities calls every Entity node of the graph has at
\* least one strong name; an entity with weak names only is never written.
C21_PersistedNodesHaveStrongName ==
    \A n \in kg_nodes : strong_names(n) # <<>>

\* The node n holds every strong name of the earlier node old
HoldsStrongNamesOf(n, old) ==
    Range(strong_names(old)) \subseteq Range(strong_names(n))

BatchApplied ==
    \/ kg_op = "update_entities"
    \/ kg_op = "create_entities" /\ unified.outcome = "returned"

\* C29: every relationship (S, predicate, O) of the graph before a batch has,
\* after the batch, a relationship with the same predicate and direction
\* between the nodes that now hold the strong names of S and of O, also when
\* S and O are both replaced in the batch or merged into one node.
C29_BatchKeepsRelationships ==
    BatchApplied =>
        \A r \in prev_rels :
            \E c \in kg_rels :
                /\ c.predicate = r.predicate
                /\ HoldsStrongNamesOf(NodeById(kg_nodes, c.start), NodeById(prev_nodes, r.start))
                /\ HoldsStrongNamesOf(NodeById(kg_nodes, c.end), NodeById(prev_nodes, r.end))


(***************************************************************************)
(* TripletOperations.add_triplets                                          *)
(* (src/knowledge_graph/triplet_operations.py)                             *)
(***************************************************************************)
MaxTriplets == 1

InputTriplet(subject_name, predicate, object_name) ==
    [subject_name |-> subject_name, predicate |-> predicate, object_name |-> object_name]

\* MATCH (subject:Entity), (object:Entity)
\* WHERE triplet_data.subject_name IN subject.all_names
\*   AND triplet_data.object_name IN object.all_names
match_triplet(nodes, triplet_data) ==
    {p \in nodes \X nodes :
        /\ triplet_data.subject_name \in Range(all_names(p[1]))
        /\ triplet_data.object_name \in Range(all_names(p[2]))}

\* MERGE (subject)-[r:RELATES {predicate: triplet_data.predicate}]->(object)
\* for each matched row in turn
RECURSIVE merge_relates(_, _, _, _)
merge_relates(store, rows, predicate, k) ==
    IF k > Len(rows) THEN store
    ELSE LET subject == rows[k][1].nid
             object == rows[k][2].nid
             bound == {r \in store.rels : /\ r.type = RELATES
                                          /\ r.predicate = predicate
                                          /\ r.start = subject
                                          /\ r.end = object}
         IN  IF bound # {}
             THEN merge_relates(store, rows, predicate, k + 1)
             ELSE merge_relates(
                      [store EXCEPT !.rels = @ \cup {Rel(store.next_id, subject, object,
                                                         RELATES, predicate)},
                                    !.next_id = @ + 1],
                      rows, predicate, k + 1)

\* UNWIND $triplets AS triplet_data ...
RECURSIVE add_triplets_tx(_, _, _)
add_triplets_tx(store, triplet_list, k) ==
    IF k > Len(triplet_list) THEN store
    ELSE add_triplets_tx(
             merge_relates(store, SetToSeq(match_triplet(store.nodes, triplet_list[k])),
                           triplet_list[k].predicate, 1),
             triplet_list, k + 1)

add_triplets(nodes, rels, id, triplet_list) ==
    add_triplets_tx(Store(nodes, rels, id, <<>>), triplet_list, 1)

Triplets == {InputTriplet(s, p, o) : s \in Names, p \in Predicates, o \in Names}

RECURSIVE TripletLists(_)
TripletLists(n) ==
    IF n = 0 THEN {<<>>}
    ELSE {Append(l, t) : l \in TripletLists(n - 1), t \in Triplets}

\* TripletOperations.add_triplets(triplets)
AddTriplets ==
    /\ kg_op = "none"
    /\ \E n \in 1..MaxTriplets : \E triplet_list \in TripletLists(n) :
           LET store == add_triplets(kg_nodes, kg_rels, next_id, triplet_list)
           IN  /\ triplets' = triplet_list
               /\ kg_rels' = store.rels
               /\ next_id' = store.next_id
    /\ kg_op' = "add_triplets"
    /\ prev_nodes' = kg_nodes
    /\ prev_rels' = kg_rels
    /\ UNCHANGED <<SchedulerVars, documents, kg_nodes, new_entities, related_entities, unified,
                   updated, merge_log>>

\* TripletOperations.add_triplets called again with the same list
AddTripletsAgain ==
    /\ kg_op = "add_triplets"
    /\ LET store == add_triplets(kg_nodes, kg_rels, next_id, triplets)
       IN  /\ kg_rels' = store.rels
           /\ next_id' = store.next_id
    /\ kg_op' = "add_triplets again"
    /\ prev_nodes' = kg_nodes
    /\ prev_rels' = kg_rels
    /\ UNCHANGED <<SchedulerVars, documents, kg_nodes, new_entities, related_entities, unified,
                   updated, merge_log, triplets>>

NextTriplets == AddTriplets \/ AddTripletsAgain

\* add_triplets on a graph of up to MaxEntities - 1 nodes
SpecTriplets == InitUnify /\ [][NextTriplets]_vars

TripletsAdded == kg_op = "add_triplets" /\ Len(triplets) = 1

\* C22: add_triplets creates a relationship only between nodes that hold the
\* subject name and the object name as strong names, so a weak name of a node
\* never attaches the triplet to it, and each triplet creates at most one
\* relationship.
C22_TripletAttachesByStrongName ==
    TripletsAdded =>
        /\ \A r \in kg_rels \ prev_rels :
               /\ triplets[1].subject_name \in Range(strong_names(NodeById(kg_nodes, r.start)))
               /\ triplets[1].object_name \in Range(strong_names(NodeById(kg_nodes, r.end)))
        /\ Cardinality(kg_rels \ prev_rels) <= 1


(***************************************************************************)
(* Two Novels ingested through the one KnowledgeGraphManager of the        *)
(* Container (src/config/container.py)                                     *)
(***************************************************************************)
NamesOf(lists) == UNION {{lists[k][i].name : i \in DOMAIN lists[k]} : k \in DOMAIN lists}

\* What the two nodes of the ingestion workflow extract from a chapter: the
\* entities, and a triplet between names of the chapter
Extracted ==
    UNION {{[entities |-> lists, triplet |-> InputTriplet(s, "KNOWS", o),
             step |-> "entity_addition_node", ingested_status |-> FALSE] :
                s \in NamesOf(lists), o \in NamesOf(lists)} :
           lists \in NewNameLists}

InitDocuments ==
    /\ SchedulerIdle
    /\ kg_nodes = {}
    /\ kg_rels = {}
    /\ next_id = 1
    /\ prev_nodes = kg_nodes
    /\ prev_rels = kg_rels
    /\ new_entities = <<>>
    /\ related_entities = <<>>
    /\ unified = [outcome |-> "not called", entities |-> <<>>]
    /\ updated = <<>>
    /\ merge_log = <<>>
    /\ triplets = <<>>
    /\ documents \in [Documents -> Extracted]
    /\ kg_op = "none"

\* entity_addition_node of the ingestion of document d: from the return of
\* schema_invoke to the return of update_entities nothing is awaited
EntityAdditionNode(d) ==
    /\ documents[d].step = "entity_addition_node"
    /\ LET old_entities == get_all_entities(kg_nodes)
           new == NewEntities(documents[d].entities, Len(old_entities) + 1)
           entities == old_entities \o new
           mapping == map_names(entities)
           nodes == add_nodes(entities)
       IN  /\ new_entities' = new
           /\ IF add_edges_raises(entities)
              THEN /\ related_entities' = <<>>
                   /\ unified' = [outcome |-> IndexError, entities |-> <<>>]
                   /\ documents' = [documents EXCEPT ![d].step = "raised"]
                   /\ UNCHANGED <<kg_nodes, kg_rels, next_id, updated, merge_log>>
              ELSE \E related \in find_related_entities(
                          connected_components(nodes, add_edges(entities)), mapping, 1) :
                       LET new_unified_entities == combine_entities(related)
                           store == update_entities(kg_nodes, kg_rels, next_id,
                                                    new_unified_entities)
                       IN  /\ related_entities' = related
                           /\ unified' = [outcome |-> "returned",
                                          entities |-> new_unified_entities]
                           /\ updated' = new_unified_entities
                           /\ kg_nodes' = store.nodes
                           /\ kg_rels' = store.rels
                           /\ next_id' = store.next_id
                           /\ merge_log' = store.log
                           /\ documents' = [documents EXCEPT ![d].step = "triplet_extractor_node"]
    /\ kg_op' = "create_entities"
    /\ prev_nodes' = kg_nodes
    /\ prev_rels' = kg_rels
    /\ UNCHANGED <<SchedulerVars, triplets>>

\* triplet_extractor_node of the ingestion of document d, the return of the
\* workflow and the flag ingest_chapter sets
TripletExtractorNode(d) ==
    /\ documents[d].step = "triplet_extractor_node"
    /\ LET parsed_triplets == <<documents[d].triplet>>
           store == add_triplets(kg_nodes, kg_rels, next_id, parsed_triplets)
       IN  /\ triplets' = parsed_triplets
           /\ kg_rels' = store.rels
           /\ next_id' = store.next_id
    /\ documents' = [documents EXCEPT ![d].step = "done", ![d].ingested_status = TRUE]
    /\ kg_op' = "add_triplets"
    /\ prev_nodes' = kg_nodes
    /\ prev_rels' = kg_rels
    /\ UNCHANGED <<SchedulerVars, kg_nodes, new_entities, related_entities, unified,
                   updated, merge_log>>

NextDocuments ==
    \E d \in Documents : EntityAdditionNode(d) \/ TripletExtractorNode(d)

SpecDocuments == InitDocuments /\ [][NextDocuments]_vars

\* The ways the ingestion of one document ends on a graph of its own
ingested_alone(document) ==
    LET new == NewEntities(document.entities, 1)
    IN  IF add_edges_raises(new)
        THEN {[ingested_status |-> FALSE, nodes |-> {}, rels |-> {}]}
        ELSE {LET entity_store == update_entities({}, {}, 1, combine_entities(related))
                  store == add_triplets(entity_store.nodes, entity_store.rels,
                                        entity_store.next_id, <<document.triplet>>)
              IN  [ingested_status |-> TRUE, nodes |-> store.nodes, rels |-> store.rels] :
                  related \in find_related_entities(
                      connected_components(add_nodes(new), add_edges(new)),
                      map_names(new), 1)}

DocumentsFinished == \A d \in Documents : documents[d].step \in {"done", "raised"}

\* C23: however the ingestion steps of two documents interleave, each
\* document ends with the flag it has when ingested alone, and the graph
\* holds, for each document, the nodes and relationships its ingestion
\* alone gives, and nothing else.
C23_DocumentsShareNoState ==
    DocumentsFinished =>
        \E a \in ingested_alone(documents["A"]) : \E b \in ingested_alone(documents["B"]) :
            /\ documents["A"].ingested_status = a.ingested_status
            /\ documents["B"].ingested_status = b.ingested_status
            /\ \A v \in {NodeView(n) : n \in kg_nodes \cup a.nodes \cup b.nodes} :
                   Cardinality({n \in kg_nodes : NodeView(n) = v})
                       = Cardinality({n \in a.nodes : NodeView(n) = v})
                           + Cardinality({n \in b.nodes : NodeView(n) = v})
            /\ \A v \in {RelView(kg_nodes, r) : r \in kg_rels}
                            \cup {RelView(a.nodes, r) : r \in a.rels}
                            \cup {RelView(b.nodes, r) : r \in b.rels} :
                   Cardinality({r \in kg_rels : RelView(kg_nodes, r) = v})
                       = Cardinality({r \in a.rels : RelView(a.nodes, r) = v})
                           + Cardinality({r \in b.rels : RelView(b.nodes, r) = v})


(***************************************************************************)
(* NovelTranslator._update_novel_from_setup_result                         *)
(* (src/translation_orchestration/novel_processor.py)                      *)
(***************************************************************************)
\* The key is not in the result
Absent == "absent"

EmptyList == "[]"

\* str.strip() on the strings of the model
strip(s) ==
    CASE s = " " -> ""
      [] s = " formal " -> "formal"
      [] s = " en " -> "en"
      [] OTHER -> s

\* bool(value) of a str, a list or None
truthy(value) == value \notin {None, "", EmptyList}

\* Fault variant of _update_novel_from_setup_result: every key of the result
\* is assigned, whatever its value
update_novel_from_setup_result_assign_all(nov, result) ==
    [novel |-> [nov EXCEPT
                    !.style_guide = IF result.style_guide = Absent THEN @
                                    ELSE IF truthy(result.style_guide)
                                         THEN strip(result.style_guide) ELSE None,
                    !.genres = IF result.genres = Absent THEN @
                               ELSE IF truthy(result.genres) THEN result.genres ELSE None,
                    !.language = IF result.language = Absent THEN @
                                 ELSE IF truthy(result.language)
                                      THEN strip(result.language) ELSE None],
     outcome |-> "returned"]

\* The Novel after the call, and how the call ends: the list comprehension
\* over remaining_reqs, which is Requirement.SETUP or False, raises TypeError
update_novel_from_setup_result(nov, result) ==
    LET style_guide == /\ result.style_guide # Absent
                       /\ truthy(result.style_guide)
                       /\ truthy(strip(result.style_guide))
        genres == result.genres # Absent /\ truthy(result.genres)
        language == /\ result.language # Absent
                    /\ truthy(result.language)
                    /\ truthy(strip(result.language))
        updated_flag == style_guide \/ genres \/ language
    IN  [novel |-> [nov EXCEPT
                        !.style_guide = IF style_guide THEN strip(result.style_guide) ELSE @,
                        !.genres = IF genres THEN result.genres ELSE @,
                        !.language = IF language THEN strip(result.language) ELSE @],
         outcome |-> IF updated_flag THEN "TypeError" ELSE "returned"]

\* The results a setup workflow can hand over
SetupResults ==
    [style_guide : {Absent, None, "", " ", "formal", " formal "},
     genres : {Absent, None, EmptyList, "['fantasy']"},
     language : {Absent, None, "", " ", "en", " en "}]

InitSetup ==
    /\ novel \in ConstructedNovels
    /\ max_feedback_loops = DefaultMaxFeedbackLoops
    /\ InitRest
    /\ EmptyGraph

\* self._update_novel_from_setup_result(result)
UpdateNovelFromSetupResult ==
    /\ \E result \in SetupResults :
           LET call == update_novel_from_setup_result(novel, result)
           IN  /\ novel' = call.novel
               /\ last_outcome' = call.outcome
               /\ setup_result' = result
    /\ prev_novel' = novel
    /\ UNCHANGED <<EntityVars, node_log, indexed_chapters, max_feedback_loops, WorkflowVars, task,
                   setup_requests, done>>

NextSetup == UpdateNovelFromSetupResult

SpecSetup == InitSetup /\ [][NextSetup]_vars

\* The result holds a value for the field that is not empty; a string of
\* white space only counts as empty
NonEmptyIn(result, field) ==
    /\ result[field] \notin {Absent, None, "", EmptyList}
    /\ field # "genres" => strip(result[field]) # ""

\* The value of the field as it is kept: strings without surrounding white space
Kept(result, field) ==
    IF field = "genres" THEN result[field] ELSE strip(result[field])

UnsetFields(nov) == {field \in SetupFields : nov[field] = None}

\* C24: _update_novel_from_setup_result sets each of style_guide, genres and
\* language for which the result holds a non-empty value and leaves each
\* field that is absent or empty in the result as it was, so no set field
\* becomes unset, the unset fields after the call are the unset fields before
\* it that the result did not supply, and the chapters are untouched.
C24_SetupResultSetsNonEmptyFieldsOnly ==
    setup_result # NoResult =>
        /\ \A field \in SetupFields :
               IF NonEmptyIn(setup_result, field)
               THEN novel[field] = Kept(setup_result, field) /\ novel[field] # None
               ELSE novel[field] = prev_novel[field]
        /\ UnsetFields(novel)
               = {field \in UnsetFields(prev_novel) : ~NonEmptyIn(setup_result, field)}
        /\ novel.keys = prev_novel.keys
        /\ novel.chapters = prev_novel.chapters

\* A partial result: one field supplied, one empty in the result and set
\* before, one absent and still unset
C24_Witness ==
    /\ setup_result # NoResult
    /\ \E f, g, h \in SetupFields :
           /\ NonEmptyIn(setup_result, f) /\ prev_novel[f] = None /\ novel[f] # None
           /\ setup_result[g] \in {"", " ", EmptyList} /\ prev_novel[g] # None
           /\ setup_result[h] = Absent /\ novel[h] = None


(***************************************************************************)
(* The fields a chapter-level task writes                                  *)
(***************************************************************************)
ChapterFields == {"original", "translation", "summary", "annotated_status", "ingested_status"}

\* The field of a chapter that a requirement stands for
OwnedField(requirement) ==
    CASE requirement = SUMMARY -> "summary"
      [] requirement = INGESTION -> "ingested_status"
      [] requirement = ANNOTATION -> "annotated_status"
      [] requirement = TRANSLATION -> "translation"

ChapterTaskSucceeded ==
    /\ last_outcome = "ok"
    /\ task # NotCalled /\ task # NoTask
    /\ task[1] # -1

\* C25: a chapter-level task (i, R) that process_next_task processed
\* successfully has set the field of chapter i that R stands for, and every
\* other field of chapter i, every other chapter, the set and order of the
\* chapters and the setup fields of the Novel are as before.
C25_ChapterTaskWritesItsFieldOnly ==
    ChapterTaskSucceeded =>
        LET i == task[1]
            owned == OwnedField(task[3])
        IN  /\ novel.keys = prev_novel.keys
            /\ DOMAIN novel.chapters = DOMAIN prev_novel.chapters
            /\ \A field \in SetupFields : novel[field] = prev_novel[field]
            /\ \A j \in DOMAIN novel.chapters \ {i} : novel.chapters[j] = prev_novel.chapters[j]
            /\ \A field \in ChapterFields \ {owned} :
                   novel.chapters[i][field] = prev_novel.chapters[i][field]
            /\ novel.chapters[i][owned] # prev_novel.chapters[i][owned]
            /\ IF owned \in {"summary", "translation"}
               THEN novel.chapters[i][owned] # None
               ELSE novel.chapters[i][owned] = TRUE

\* A task of the second chapter succeeded while the first chapter has all of
\* its fields set
C25_Witness ==
    /\ ChapterTaskSucceeded
    /\ task[1] = 1
    /\ 0 \in DOMAIN novel.chapters
    /\ novel.chapters[0].summary # None
    /\ novel.chapters[0].translation # None
    /\ novel.chapters[1].translation = None


AddChaptersReturned == task = NotCalled /\ last_outcome = "none" /\ indexed_chapters # <<>>

\* C26: add_chapters adds chapters at the indices the Novel does not have
\* and at no other: a chapter that was there keeps its text, summary,
\* ingested_status, annotated_status and translation and its place in the
\* dict, and after every operation the Novel has every chapter index it had
\* before.
C26_AddChaptersKeepsExistingChapters ==
    /\ DOMAIN prev_novel.chapters \subseteq DOMAIN novel.chapters
    /\ AddChaptersReturned =>
           /\ \A i \in DOMAIN prev_novel.chapters : novel.chapters[i] = prev_novel.chapters[i]
           /\ SubSeq(novel.keys, 1, Len(prev_novel.keys)) = prev_novel.keys
           /\ DOMAIN novel.chapters
                  = DOMAIN prev_novel.chapters
                        \cup {indexed_chapters[k][1] : k \in DOMAIN indexed_chapters}
           /\ \A k \in DOMAIN indexed_chapters :
                  indexed_chapters[k][1] \notin DOMAIN prev_novel.chapters
                      => novel.chapters[indexed_chapters[k][1]]
                             = Chapter(indexed_chapters[k][2])

\* A batch with another text for a chapter that has a translation, and with
\* a new chapter
C26_Witness ==
    /\ AddChaptersReturned
    /\ \E k \in DOMAIN indexed_chapters :
           LET i == indexed_chapters[k][1]
           IN  /\ i \in DOMAIN prev_novel.chapters
               /\ indexed_chapters[k][2] # prev_novel.chapters[i].original
               /\ prev_novel.chapters[i].translation # None
    /\ DOMAIN novel.chapters # DOMAIN prev_novel.chapters


(***************************************************************************)
(* The translation workflow with an entry dispatcher                       *)
(* (create_translation_workflow, src/workflow/translation.py)              *)
(***************************************************************************)
STYLE_GUIDE_NEEDED == "style_guide needed"
LANGUAGE_NEEDED == "language needed"
CONTINUE == "continue"

\* Fault variant of route_preloads: the language is not looked at
route_preloads_style_only(state) ==
    IF "style_guide" \notin DOMAIN state THEN STYLE_GUIDE_NEEDED ELSE CONTINUE

route_preloads(state) ==
    IF "style_guide" \notin DOMAIN state THEN STYLE_GUIDE_NEEDED
    ELSE IF "language" \notin DOMAIN state THEN LANGUAGE_NEEDED
    ELSE CONTINUE

\* The edges of create_translation_workflow: the node that follows `node`
dispatch_next(node, state, max) ==
    CASE node = "entry_node" ->
            (CASE route_preloads(state) = STYLE_GUIDE_NEEDED -> "style_node"
               [] route_preloads(state) = LANGUAGE_NEEDED -> "language_detector_node"
               [] route_preloads(state) = CONTINUE -> "translator_node")
      [] node = "style_node" -> "entry_node"
      [] node = "language_detector_node" -> "entry_node"
      [] node = "translator_node" -> "inc_translate_feedback_node"
      [] node = "inc_translate_feedback_node" ->
            IF route_increment_exceed(state, max)
            THEN "fluency_editor_node" ELSE "junior_editor_node"
      [] node = "junior_editor_node" ->
            IF route_junior_pass(state) THEN "fluency_editor_node" ELSE "translator_node"
      [] node = "fluency_editor_node" -> "END"

\* The keys an input state may come without
OptionalKeys == {"style_guide", "language", "feedback_rout_loops"}

PresetValue(key) ==
    CASE key = "style_guide" -> "Sample style guide"
      [] key = "language" -> "English"
      [] key = "feedback_rout_loops" -> 0

\* The states the workflow is invoked with
DispatchInputs ==
    {[k \in {"text", "translation", "fluent_translation", "feedback"} \cup K |->
          IF k \in K THEN PresetValue(k)
          ELSE IF k = "text" THEN "Sample text" ELSE ""] :
     K \in SUBSET OptionalKeys}

InitDispatch ==
    /\ novel = [keys |-> <<>>, chapters |-> EmptyChapters, style_guide |-> None,
                genres |-> None, language |-> None]
    /\ max_feedback_loops \in 1..MaxLoops
    /\ wf_pc = "entry_node"
    /\ wf_state \in DispatchInputs
    /\ wf_chapter = -1
    /\ translator_runs = 0
    /\ junior_runs = 0
    /\ fluency_runs = 0
    /\ last_node = "START"
    /\ task = NotCalled
    /\ last_outcome = "running"
    /\ prev_novel = novel
    /\ setup_requests = 0
    /\ setup_result = NoResult
    /\ indexed_chapters = <<>>
    /\ node_log = <<>>
    /\ done = {}
    /\ EmptyGraph

\* What every node of the workflow does beside its update of the state
NodeRan(node) ==
    /\ wf_pc = node
    /\ wf_pc' = dispatch_next(node, wf_state', max_feedback_loops)
    /\ last_node' = node
    /\ node_log' = Append(node_log, node)
    /\ UNCHANGED <<EntityVars, setup_result, indexed_chapters, OrchestratorVars, wf_chapter>>

\* entry_dispatcher returns nothing
EntryNode ==
    /\ UNCHANGED <<wf_state, translator_runs, junior_runs, fluency_runs>>
    /\ NodeRan("entry_node")

\* style_node: {"style_guide": ...}
StyleNode ==
    /\ wf_state' = set_key(wf_state, "style_guide", "style guide")
    /\ UNCHANGED <<translator_runs, junior_runs, fluency_runs>>
    /\ NodeRan("style_node")

\* language_detector_node: {"language": ...}
LanguageDetectorNode ==
    /\ wf_state' = set_key(wf_state, "language", "Chinese")
    /\ UNCHANGED <<translator_runs, junior_runs, fluency_runs>>
    /\ NodeRan("language_detector_node")

TranslatorNode ==
    /\ wf_state' = translate(wf_state)
    /\ translator_runs' = translator_runs + 1
    /\ UNCHANGED <<junior_runs, fluency_runs>>
    /\ NodeRan("translator_node")

IncTranslateFeedbackNode ==
    /\ wf_state' = increment_feedback(wf_state)
    /\ UNCHANGED <<translator_runs, junior_runs, fluency_runs>>
    /\ NodeRan("inc_translate_feedback_node")

JuniorEditorNode ==
    /\ \E approves \in BOOLEAN : wf_state' = review_translation(wf_state, approves)
    /\ junior_runs' = junior_runs + 1
    /\ UNCHANGED <<translator_runs, fluency_runs>>
    /\ NodeRan("junior_editor_node")

FluencyEditorNode ==
    /\ wf_state' = improve_fluency(wf_state)
    /\ fluency_runs' = fluency_runs + 1
    /\ UNCHANGED <<translator_runs, junior_runs>>
    /\ NodeRan("fluency_editor_node")

\* A node that calls the language model or the language detector raises
NodeRaises ==
    /\ wf_pc \in {"style_node", "language_detector_node", "translator_node",
                  "junior_editor_node", "fluency_editor_node"}
    /\ wf_pc' = "raised"
    /\ last_outcome' = "raised"
    /\ UNCHANGED <<EntityVars, setup_result, indexed_chapters, node_log, novel,
                   max_feedback_loops, task, prev_novel, setup_requests, done, wf_state,
                   wf_chapter, translator_runs, junior_runs, fluency_runs, last_node>>

NextDispatch ==
    \/ EntryNode
    \/ StyleNode
    \/ LanguageDetectorNode
    \/ TranslatorNode
    \/ IncTranslateFeedbackNode
    \/ JuniorEditorNode
    \/ FluencyEditorNode
    \/ NodeRaises

SpecDispatch == InitDispatch /\ [][NextDispatch]_vars


Count(log, node) == Cardinality({k \in DOMAIN log : log[k] = node})

\* C28: in the workflow with the entry dispatcher the style step runs while
\* style_guide is missing from the state and before any other step, the
\* language detection runs while language is missing and before any step
\* but the style step, the translator runs only with both keys in the
\* state, and each of the two preload steps runs at most once.
C28_PreloadsOrderedAndOnce ==
    /\ Count(node_log, "style_node") <= 1
    /\ Count(node_log, "language_detector_node") <= 1
    /\ wf_pc = "style_node" => "style_guide" \notin DOMAIN wf_state
    /\ wf_pc = "language_detector_node" =>
           "style_guide" \in DOMAIN wf_state /\ "language" \notin DOMAIN wf_state
    /\ "style_guide" \notin DOMAIN wf_state =>
           \A k \in DOMAIN node_log : node_log[k] = "entry_node"
    /\ "language" \notin DOMAIN wf_state =>
           \A k \in DOMAIN node_log : node_log[k] \in {"entry_node", "style_node"}
    /\ (wf_pc = "translator_node" \/ translator_runs > 0) =>
           {"style_guide", "language"} \subseteq DOMAIN wf_state

\* Both preload steps ran, in this order, and the workflow reached its end
C28_Witness ==
    /\ wf_pc = "END"
    /\ Len(node_log) >= 6
    /\ SubSeq(node_log, 1, 6) = <<"entry_node", "style_node", "entry_node",
                                  "language_detector_node", "entry_node", "translator_node">>

\* The counter of a state; a state without the key counts as 0
Counter(state) ==
    IF "feedback_rout_loops" \in DOMAIN state THEN state.feedback_rout_loops ELSE 0

IncrementStep == wf_pc = "inc_translate_feedback_node" /\ wf_pc' # wf_pc

\* C27 as stated: at every point of an invocation the counter equals the
\* number of translator executions completed so far and is at most
\* max_feedback_loops.
C27_CounterIsTranslatorRuns ==
    /\ Counter(wf_state) = translator_runs
    /\ Counter(wf_state) <= max_feedback_loops

\* C27: the counter starts at 0, a missing counter counting as 0; the
\* increment step adds exactly 1 and changes no other key; the counter is the
\* number of increment steps completed, which is the number of translator
\* executions completed but for the point between a translator execution and
\* its increment, where it is one less; it never exceeds max_feedback_loops.
C27_CounterIsIncrementsDone ==
    /\ [](/\ node_log = <<>> => Counter(wf_state) = 0
          /\ Counter(wf_state) = Count(node_log, "inc_translate_feedback_node")
          /\ translator_runs - Counter(wf_state)
                 = (IF last_node = "translator_node" THEN 1 ELSE 0)
          /\ Counter(wf_state) <= max_feedback_loops)
    /\ [][IncrementStep =>
              /\ Counter(wf_state') = Counter(wf_state) + 1
              /\ DOMAIN wf_state' = DOMAIN wf_state \cup {"feedback_rout_loops"}
              /\ \A k \in DOMAIN wf_state \ {"feedback_rout_loops"} :
                     wf_state'[k] = wf_state[k]]_vars

\* The second translator execution is completed and its increment is not,
\* in an invocation whose state came without the counter or with 0
C27_Witness ==
    /\ last_node = "translator_node"
    /\ translator_runs = 2
    /\ Counter(wf_state) = 1


(***************************************************************************)
(* The runner loop of run_step_by_step_translation (src/main.py)           *)
(***************************************************************************)
\* The NovelTranslator after novel_translator.add_chapters(...), before the loop
InitRunner ==
    /\ \E nov \in ConstructedNovels : \E batch \in Batches(nov) :
           /\ novel = add_chapters(nov, batch)
           /\ indexed_chapters = batch
    /\ max_feedback_loops \in 1..MaxLoops
    /\ wf_pc = "idle"
    /\ wf_state = InitialTranslationState
    /\ wf_chapter = -1
    /\ translator_runs = 0
    /\ junior_runs = 0
    /\ fluency_runs = 0
    /\ last_node = "START"
    /\ task = NotCalled
    /\ last_outcome = "none"
    /\ prev_novel = novel
    /\ setup_requests = 0
    /\ setup_result = NoResult
    /\ node_log = <<>>
    /\ done = {}
    /\ EmptyGraph

\* task = await novel_translator.get_next_task(); if not task: break
RunnerBreaks ==
    /\ wf_pc = "idle"
    /\ last_outcome # "all tasks completed"
    /\ get_task(novel) = NoTask
    /\ task' = NoTask
    /\ last_outcome' = "all tasks completed"
    /\ UNCHANGED <<EntityVars, node_log, setup_result, indexed_chapters, novel,
                   max_feedback_loops, WorkflowVars, prev_novel, setup_requests, done>>

\* One pass of the loop with a task: process_next_task inside try, and
\* except Exception, which prints and goes on with the loop
RunnerProcesses ==
    \/ ProcessSetupTask
    \/ ProcessSummary
    \/ ProcessIngestion
    \/ ProcessAnnotation
    \/ ProcessTranslation
    \/ WorkflowStep
    \/ WorkflowRaises

NextRunner == RunnerBreaks \/ RunnerProcesses

\* The loop goes on as long as it has not left through break
SpecRunner == InitRunner /\ [][NextRunner]_vars /\ WF_vars(NextRunner)

\* C30: the runner loop ends, also when processing the same task raises on
\* every attempt.  (A pass whose process_next_task raises leaves the Novel
\* as it was, so once the call counter setup_requests is at its cap the pass
\* is a stuttering step: the behaviour that stutters for ever is the code
\* repeating the failing pass for ever, never reaching break.)
C30_RunnerLoopTerminates == <>(last_outcome = "all tasks completed")

====
